---- MODULE Spec2Model ----
(***************************************************************************)
(* Model of catalog-service/app/database.py: the configuration loader, the *)
(* pooled engine, the session factory, the get_db session provider and the *)
(* verify_database_connection startup probe.                               *)
(*                                                                         *)
(* The module itself is configuration and glue.  What the engine, the pool *)
(* and the sessions do with that configuration is SQLAlchemy's (2.0, the   *)
(* version the probe's docstring names) and python-dotenv's behaviour; it  *)
(* is modelled here as far as the file's parameters select it:             *)
(*   QueuePool(pool_size, max_overflow, pre_ping), Session(autocommit,     *)
(*   autoflush), load_dotenv(override=False).                              *)
(***************************************************************************)
EXTENDS Integers, Sequences, FiniteSets, TLC

VARIABLES
    env,        \* os.environ: key -> value, NoVal when the key is not set
    dotenv,     \* the .env file: key -> value, NoVal when absent from the file
    mod,        \* the module's namespace and the position of its import
    transcript, \* number of SQL statements echoed to diagnostic output
    idle,       \* QueuePool._pool: FIFO queue of idle connection records
    overflow,   \* QueuePool._overflow
    units,      \* per unit of work: the get_db generator and its caller
    sessions,   \* the Session objects, by identity
    committed,  \* the database: row -> how it was persisted ("no" when it is not)
    probe,      \* the running verify_database_connection call
    bg          \* connections checked out by other (anonymous) units of work

vars == <<env, dotenv, mod, transcript, idle, overflow, units, sessions,
          committed, probe, bg>>

importVars == <<env, dotenv, mod, transcript>>
poolVars == <<idle, overflow>>

(***************************************************************************)
(* Bounds of the model.                                                    *)
(***************************************************************************)
\* tracked concurrent units of work (get_db generators)
MaxUnits == 2
\* other concurrent units of work, known only by the connection each holds
MaxBg == 15
\* statements echoed before the transcript counter stops counting
MaxLog == 2

Units == 1 .. MaxUnits
SessionIds == 1 .. MaxUnits
Rows == Units

NoVal == "<unset>"

(***************************************************************************)
(* 4.1 Configuration loader: lines 17-27.                                  *)
(***************************************************************************)
\* values a variable can have; "" is set-but-empty
UrlValues == {NoVal, "", "postgresql://db/catalog", "not-a-url"}
EnvironmentValues == {NoVal, "", "development", "Development", " development ", "production"}

\* load_dotenv(): every key of the file is copied into the environment
\* unless the environment already has it (override defaults to False).
load_dotenv(e, f) ==
    [k \in DOMAIN e |-> IF e[k] = NoVal THEN f[k] ELSE e[k]]

\* os.getenv(key): None when the key is not set
getenv(e, k) == e[k]

\* Python truthiness of an Optional[str]: None and "" are falsy
Truthy(s) == s # NoVal /\ s # ""

EnvKeys == {"DATABASE_URL", "ENVIRONMENT"}

\* the names the module binds, in the order it binds them
ModuleNames == {"engine", "SessionLocal", "Base", "get_db", "verify_database_connection"}

\* sqlalchemy.engine.make_url: whether create_engine can parse the string
ParsableUrl(s) == s = "postgresql://db/catalog"

\* the namespace before line 17 runs
ModuleStart ==
    [pc |-> "load_dotenv", DATABASE_URL |-> NoVal, bound |-> {},
     echo |-> FALSE, error |-> "none", statements |-> 0]

\* line 17
ImportLoadDotenv ==
    /\ mod.pc = "load_dotenv"
    /\ env' = load_dotenv(env, dotenv)
    /\ mod' = [mod EXCEPT !.pc = "getenv"]
    /\ UNCHANGED <<dotenv, transcript>>

\* line 20
ImportGetenv ==
    /\ mod.pc = "getenv"
    /\ mod' = [mod EXCEPT !.pc = "check", !.DATABASE_URL = getenv(env, "DATABASE_URL")]
    /\ UNCHANGED <<env, dotenv, transcript>>

\* line 23: the condition of the fail-fast check (UrlIsNone: the faulty
\* variant `is None`, which lets the empty string through)
UrlIsNone(url) == url = NoVal
UrlMissing(url) == ~Truthy(url)

\* lines 23-27
ImportCheck ==
    /\ mod.pc = "check"
    /\ mod' = IF UrlMissing(mod.DATABASE_URL)
              THEN [mod EXCEPT !.pc = "failed", !.error = "ValueError"]
              ELSE [mod EXCEPT !.pc = "create_engine"]
    /\ UNCHANGED <<env, dotenv, transcript>>

\* line 53: the echo argument (EchoWhenSet: the faulty variant that echoes
\* for any non-empty ENVIRONMENT)
EchoWhenSet(e) == Truthy(getenv(e, "ENVIRONMENT"))
EchoFlag(e) == getenv(e, "ENVIRONMENT") = "development"

\* lines 32-55: create_engine parses the URL (and opens no connection)
ImportCreateEngine ==
    /\ mod.pc = "create_engine"
    /\ mod' = IF ParsableUrl(mod.DATABASE_URL)
              THEN [mod EXCEPT !.pc = "sessionmaker", !.bound = @ \cup {"engine"},
                               !.echo = EchoFlag(env)]
              ELSE [mod EXCEPT !.pc = "failed", !.error = "ArgumentError"]
    /\ UNCHANGED <<env, dotenv, transcript>>

\* lines 77-81, 92, 98, 135: the remaining bindings, one statement each
ImportBind ==
    /\ \E step \in {<<"sessionmaker", "SessionLocal", "Base">>,
                    <<"Base", "Base", "get_db">>,
                    <<"get_db", "get_db", "verify_database_connection">>,
                    <<"verify_database_connection", "verify_database_connection", "imported">>} :
          /\ mod.pc = step[1]
          /\ mod' = [mod EXCEPT !.pc = step[3], !.bound = @ \cup {step[2]}]
    /\ UNCHANGED <<env, dotenv, transcript>>

\* a statement run on the engine once the module is imported: echoed when
\* the engine was created with echo=True
EngineExecute ==
    /\ "engine" \in mod.bound
    /\ mod.statements < MaxLog
    /\ mod' = [mod EXCEPT !.statements = @ + 1]
    /\ transcript' = IF mod.echo THEN transcript + 1 ELSE transcript
    /\ UNCHANGED <<env, dotenv>>


(***************************************************************************)
(* 4.2 Connection pool manager: the arguments of create_engine, and what   *)
(* QueuePool does with them.  A connection record is                       *)
(*   "alive"  holding an open connection the server still serves,          *)
(*   "dead"   holding an open connection the server has silently closed,   *)
(*   "empty"  holding no connection (invalidated; reconnects on checkout). *)
(***************************************************************************)
\* line 39 (pool_pre_ping_off: the faulty variant without the ping)
pool_pre_ping_off == FALSE
pool_pre_ping == TRUE
\* line 44
pool_size == 5
\* line 48 (max_overflow_plus_one: the faulty variant with one more)
max_overflow_plus_one == 10 + 1
max_overflow == 10

RecordStates == {"alive", "dead", "empty"}

\* a checkout that hands out a connection in state conn and leaves the pool
\* as (q, ov); how: "live" (a pooled connection that answered the ping, or
\* one opened for this checkout), "replaced" (a pooled connection that did
\* not answer, discarded and reconnected), "unchecked" (a pooled connection
\* handed out without a ping)
Handed(conn, how, q, ov) ==
    [err |-> "none", conn |-> conn, how |-> how, idle |-> q, overflow |-> ov]
\* a checkout that raises err and leaves the pool as (q, ov)
Refused(err, q, ov) ==
    [err |-> err, conn |-> "none", how |-> "none", idle |-> q, overflow |-> ov]

\* QueuePool._do_get followed by _ConnectionFairy._checkout.  canConnect says
\* whether the server accepts a new connection at this moment.
\*  - an idle record is taken from the head of the queue; with pre-ping a
\*    record whose connection does not answer is invalidated and reconnected
\*    (a record with no connection reconnects in any case); a failed
\*    reconnect checks the record back in and raises;
\*  - with the queue empty a new connection is opened while _overflow is
\*    below max_overflow (the counter is taken back when the connect fails);
\*  - otherwise the caller waits pool_timeout and gets TimeoutError.
PoolGet(q, ov, canConnect) ==
    IF q # <<>>
    THEN LET rec == Head(q)
             rest == Tail(q)
         IN  IF rec # "empty" /\ ~pool_pre_ping THEN Handed(rec, "unchecked", rest, ov)
             ELSE IF rec = "alive" THEN Handed("alive", "live", rest, ov)
             ELSE IF canConnect
                  THEN Handed("alive", IF rec = "dead" THEN "replaced" ELSE "live",
                              rest, ov)
                  ELSE Refused("ConnectFailed", Append(rest, "empty"), ov)
    ELSE IF ov < max_overflow
         THEN IF canConnect THEN Handed("alive", "live", q, ov + 1)
              ELSE Refused("ConnectFailed", q, ov)
         ELSE Refused("PoolTimeout", q, ov)

\* QueuePool._do_return_conn: the record goes back to the queue, or, when
\* the queue already holds pool_size records, is closed and _overflow drops.
PoolReturn(q, ov, rec) ==
    IF Len(q) < pool_size
    THEN [idle |-> Append(q, rec), overflow |-> ov]
    ELSE [idle |-> q, overflow |-> ov - 1]

\* Closing a checked-out connection with its transaction open (Session.close,
\* Connection.close): the transaction is rolled back and the record checked
\* in.  On a connection the server has closed the rollback raises; handling
\* that error invalidates the connection, which checks the record in empty.
Release(q, ov, conn) ==
    IF conn = "none" THEN [idle |-> q, overflow |-> ov, raised |-> FALSE]
    ELSE LET r == PoolReturn(q, ov, IF conn = "alive" THEN "alive" ELSE "empty")
         IN  [idle |-> r.idle, overflow |-> r.overflow, raised |-> conn = "dead"]

\* A statement on connection conn ("none": one is checked out first).  On a
\* connection the server has closed the statement raises a disconnect error
\* and the connection is invalidated (its record checked in empty).
UseConn(q, ov, conn, canConnect) ==
    LET g == IF conn = "none" THEN PoolGet(q, ov, canConnect)
             ELSE Handed(conn, "none", q, ov)
    IN  IF g.err = "none" /\ g.conn = "dead"
        THEN LET r == PoolReturn(g.idle, g.overflow, "empty")
             IN  [Refused("Disconnect", r.idle, r.overflow) EXCEPT !.how = g.how]
        ELSE g

\* what a holder records of a checkout: how the connection came, or "dead"
\* when the server had already closed it
Got(g) == IF g.conn = "dead" THEN "dead" ELSE g.how

\* QueuePool.checkedout()
CheckedOut == pool_size + overflow - Len(idle)


(***************************************************************************)
(* 4.3 Session factory and session provider: lines 77-81 and 98-129.       *)
(***************************************************************************)
\* line 78 (autocommit_on: the faulty variant, every flush committed)
autocommit_on == TRUE
autocommit == FALSE
\* line 79 (autoflush_on: the faulty variant, queries flush first)
autoflush_on == TRUE
autoflush == FALSE

\* a Session as SessionLocal() returns it: no connection, nothing pending
NewSession ==
    [conn |-> "none", got |-> "none", pending |-> {}, tx |-> {}, autoflushed |-> {}]

\* the sessions some unit of work is using
InUse == {units[u].sess : u \in {v \in Units : units[v].pc \in {"active", "ended"}}}

\* line 125: SessionLocal() constructs a new object, distinct from every
\* object still referenced (SharedSessionId: the faulty variant with one
\* module-level session)
SharedSessionId(used) == 1
NewSessionId(used) == CHOOSE i \in SessionIds \ used : \A j \in SessionIds \ used : i <= j

\* lines 126-129: whether db.close() runs when the generator is resumed
\* with the exception thrown (thrown = "none": resumed normally);
\* ClosesOnlyOnSuccess: the faulty variant without try/finally
ClosesOnlyOnSuccess(thrown) == thrown = "none"
ClosesOnExit(thrown) == TRUE

\* lines 126-129: how the generator ends when resumed with thrown, given
\* whether db.close() raised: StopIteration, the thrown exception, or the
\* exception raised in the finally block in its place (SwallowsThrown: the
\* faulty variant that catches the thrown exception and ends normally)
SwallowsThrown(thrown, closeRaised) ==
    IF closeRaised THEN "CloseFailed" ELSE "StopIteration"
GeneratorOutcome(thrown, closeRaised) ==
    IF closeRaised THEN "CloseFailed"
    ELSE IF thrown = "none" THEN "StopIteration"
    ELSE thrown

\* lines 125-127: get_db() up to its yield
GetDbEnter(u) ==
    /\ "get_db" \in mod.bound
    /\ units[u].pc \in {"idle", "done"}
    /\ LET s == NewSessionId(InUse)
       IN  /\ units' = [units EXCEPT ![u] = [pc |-> "active", sess |-> s, thrown |-> "none",
                                              outcome |-> "none", closes |-> 0]]
           /\ sessions' = [sessions EXCEPT ![s] = NewSession]
    /\ UNCHANGED <<importVars, poolVars, committed, probe, bg>>

\* the unit of work ends by raising err
Raised(u, err) == [units[u] EXCEPT !.pc = "ended", !.thrown = err]

\* rows that a flush of session record ss sends to the database, and the
\* database after it (under autocommit every flush is its own transaction)
FlushTx(ss) == IF autocommit THEN ss.tx ELSE ss.tx \cup ss.pending
FlushDb(ss, db) ==
    IF autocommit
    THEN [r \in Rows |-> IF r \in ss.pending /\ db[r] = "no" THEN "implicit" ELSE db[r]]
    ELSE db

\* the caller adds a row to the session: db.add(obj)
SessionAdd(u) ==
    /\ units[u].pc = "active"
    /\ LET s == units[u].sess
       IN  /\ u \notin sessions[s].pending \cup sessions[s].tx
           /\ committed[u] = "no"
           /\ sessions' = [sessions EXCEPT ![s].pending = @ \cup {u}]
    /\ UNCHANGED <<importVars, poolVars, units, committed, probe, bg>>

\* the caller runs a query: db.query(...).all(), db.execute(...)
SessionQuery(u) ==
    /\ units[u].pc = "active"
    /\ \E canConnect \in BOOLEAN :
        LET s  == units[u].sess
            ss == sessions[s]
            r  == UseConn(idle, overflow, ss.conn, canConnect)
            hd == IF r.how # "none" THEN (IF r.err = "Disconnect" THEN "dead" ELSE r.how)
                  ELSE ss.got
            fl == autoflush /\ ss.pending # {}
        IN  /\ idle' = r.idle
            /\ overflow' = r.overflow
            /\ IF r.err # "none"
               THEN /\ units' = [units EXCEPT ![u] = Raised(u, r.err)]
                    /\ sessions' = [sessions EXCEPT ![s] =
                                      [ss EXCEPT !.conn = "none", !.got = hd, !.tx = {},
                                                 !.autoflushed = {}]]
                    /\ UNCHANGED committed
               ELSE /\ sessions' = [sessions EXCEPT ![s] =
                                      IF fl THEN [ss EXCEPT !.conn = r.conn, !.got = hd,
                                                            !.tx = FlushTx(ss),
                                                            !.autoflushed = @ \cup ss.pending,
                                                            !.pending = {}]
                                      ELSE [ss EXCEPT !.conn = r.conn, !.got = hd]]
                    /\ committed' = IF fl THEN FlushDb(ss, committed) ELSE committed
                    /\ UNCHANGED units
    /\ sessions' # sessions \/ units' # units
    /\ UNCHANGED <<importVars, probe, bg>>

\* the caller flushes: db.flush()
SessionFlush(u) ==
    /\ units[u].pc = "active"
    /\ sessions[units[u].sess].pending # {}
    /\ \E canConnect \in BOOLEAN :
        LET s  == units[u].sess
            ss == sessions[s]
            r  == UseConn(idle, overflow, ss.conn, canConnect)
            hd == IF r.how # "none" THEN (IF r.err = "Disconnect" THEN "dead" ELSE r.how)
                  ELSE ss.got
        IN  /\ idle' = r.idle
            /\ overflow' = r.overflow
            /\ IF r.err # "none"
               THEN /\ units' = [units EXCEPT ![u] = Raised(u, r.err)]
                    /\ sessions' = [sessions EXCEPT ![s] =
                                      [ss EXCEPT !.conn = "none", !.got = hd, !.tx = {},
                                                 !.autoflushed = {}]]
                    /\ UNCHANGED committed
               ELSE /\ sessions' = [sessions EXCEPT ![s] =
                                      [ss EXCEPT !.conn = r.conn, !.got = hd,
                                                 !.tx = FlushTx(ss), !.pending = {}]]
                    /\ committed' = FlushDb(ss, committed)
                    /\ UNCHANGED units
    /\ UNCHANGED <<importVars, probe, bg>>

\* the caller commits: db.commit() flushes, commits the transaction and
\* gives the connection back to the pool
SessionCommit(u) ==
    /\ units[u].pc = "active"
    /\ LET ss == sessions[units[u].sess]
       IN  ss.conn # "none" \/ ss.pending # {}
    /\ \E canConnect \in BOOLEAN :
        LET s  == units[u].sess
            ss == sessions[s]
            r  == UseConn(idle, overflow, ss.conn, canConnect)
            hd == IF r.how # "none" THEN (IF r.err = "Disconnect" THEN "dead" ELSE r.how)
                  ELSE ss.got
            back == PoolReturn(r.idle, r.overflow, "alive")
        IN  IF r.err # "none"
            THEN /\ idle' = r.idle
                 /\ overflow' = r.overflow
                 /\ units' = [units EXCEPT ![u] = Raised(u, r.err)]
                 /\ sessions' = [sessions EXCEPT ![s] =
                                   [ss EXCEPT !.conn = "none", !.got = hd, !.tx = {},
                                              !.autoflushed = {}]]
                 /\ UNCHANGED committed
            ELSE /\ idle' = back.idle
                 /\ overflow' = back.overflow
                 /\ sessions' = [sessions EXCEPT ![s] = NewSession]
                 /\ committed' = [row \in Rows |->
                                    IF row \in ss.pending \cup ss.tx /\ committed[row] = "no"
                                    THEN "commit" ELSE committed[row]]
                 /\ UNCHANGED units
    /\ UNCHANGED <<importVars, probe, bg>>

\* the caller rolls back: db.rollback() discards the pending and the flushed
\* rows and gives the connection back to the pool
SessionRollback(u) ==
    /\ units[u].pc = "active"
    /\ LET s  == units[u].sess
           ss == sessions[s]
           r  == Release(idle, overflow, ss.conn)
       IN  /\ ss.conn # "none" \/ ss.pending # {}
           /\ idle' = r.idle
           /\ overflow' = r.overflow
           /\ sessions' = [sessions EXCEPT ![s] = NewSession]
           /\ units' = IF r.raised THEN [units EXCEPT ![u] = Raised(u, "Disconnect")]
                       ELSE units
    /\ UNCHANGED <<importVars, committed, probe, bg>>

\* the unit of work ends: it returns, or raises an error of its own
UnitEnd(u) ==
    /\ units[u].pc = "active"
    /\ \E e \in {"none", "AppError"} :
          units' = [units EXCEPT ![u] = Raised(u, e)]
    /\ UNCHANGED <<importVars, poolVars, sessions, committed, probe, bg>>

\* lines 127-129: the framework resumes the generator (next(), or throw()
\* with the unit's exception); the finally block closes the session, and
\* the generator ends: StopIteration, the thrown exception, or the
\* exception db.close() raised in its place
GetDbResume(u) ==
    /\ units[u].pc = "ended"
    /\ LET s  == units[u].sess
           ss == sessions[s]
           th == units[u].thrown
           r  == Release(idle, overflow, ss.conn)
       IN  IF ClosesOnExit(th)
           THEN /\ idle' = r.idle
                /\ overflow' = r.overflow
                /\ sessions' = [sessions EXCEPT ![s] = NewSession]
                /\ units' = [units EXCEPT ![u].pc = "done", ![u].sess = 0,
                                          ![u].closes = @ + 1,
                                          ![u].outcome = GeneratorOutcome(th, r.raised)]
           ELSE /\ units' = [units EXCEPT ![u].pc = "done", ![u].sess = 0,
                                          ![u].outcome = GeneratorOutcome(th, FALSE)]
                /\ UNCHANGED <<poolVars, sessions>>
    /\ UNCHANGED <<importVars, committed, probe, bg>>


(***************************************************************************)
(* 4.4 Startup connectivity check: lines 135-151.                          *)
(***************************************************************************)
\* line 149: the except clause catches Exception and its subclasses;
\* KeyboardInterrupt derives from BaseException only
\* (CatchesDatabaseErrorsOnly: the faulty variant with a narrow clause)
CatchesDatabaseErrorsOnly(e) == e \in {"ConnectFailed", "Disconnect", "CloseFailed"}
CatchesException(e) == e # "KeyboardInterrupt"

\* lines 145-151: what the call does with the exception e its try block
\* ended with ("none": it ran to the return)
ProbeResult(e) ==
    IF e = "none" THEN "True"
    ELSE IF CatchesException(e) THEN "False"
    ELSE e

\* line 146: whether the connection is released when the block is left by
\* the exception e (a with statement: always; ReleasesOnlyOnSuccess: the
\* faulty variant that closes the connection after the query, unguarded)
ReleasesOnlyOnSuccess(e) == e = "none"
ReleasesOnExit(e) == TRUE

ProbeIdle ==
    [pc |-> "idle", conn |-> "none", got |-> "none", steps |-> 0,
     error |-> "none", result |-> "none"]

\* the call has left its try block with e
ProbeDone(p, e) ==
    [p EXCEPT !.pc = "done", !.conn = "none", !.got = "none", !.error = e,
              !.result = ProbeResult(e)]

\* line 146: engine.connect()
ProbeConnect ==
    /\ "verify_database_connection" \in mod.bound
    /\ probe.pc \in {"idle", "done"}
    /\ \E canConnect \in BOOLEAN :
        LET g == PoolGet(idle, overflow, canConnect)
        IN  /\ idle' = g.idle
            /\ overflow' = g.overflow
            /\ probe' = IF g.err # "none" THEN ProbeDone(ProbeIdle, g.err)
                        ELSE [ProbeIdle EXCEPT !.pc = "connected", !.conn = g.conn,
                                               !.got = Got(g), !.steps = 1]
    /\ UNCHANGED <<importVars, units, sessions, committed, bg>>

\* leaving the with block by exception e with connection conn checked out:
\* the pool after it and the exception the try block ends with
ProbeLeave(conn, e) ==
    IF ReleasesOnExit(e)
    THEN LET r == Release(idle, overflow, conn)
         IN  [idle |-> r.idle, overflow |-> r.overflow,
              error |-> IF r.raised THEN "CloseFailed" ELSE e]
    ELSE [idle |-> idle, overflow |-> overflow, error |-> e]

\* line 147: connection.execute(text("SELECT 1")): it succeeds, or the
\* server answers with an error (the connection stays usable), or the
\* connection turns out closed (it is invalidated)
ProbeExecute ==
    /\ probe.pc = "connected"
    /\ \E served \in BOOLEAN :
        LET r == UseConn(idle, overflow, probe.conn, FALSE)
            x == IF r.err # "none" THEN ProbeLeave("none", r.err)
                 ELSE ProbeLeave(probe.conn, "QueryError")
        IN  IF r.err = "none" /\ served
            THEN /\ probe' = [probe EXCEPT !.pc = "executed", !.steps = 2]
                 /\ UNCHANGED poolVars
            ELSE /\ idle' = IF r.err # "none" THEN r.idle ELSE x.idle
                 /\ overflow' = IF r.err # "none" THEN r.overflow ELSE x.overflow
                 /\ probe' = ProbeDone(probe, x.error)
    /\ UNCHANGED <<importVars, units, sessions, committed, bg>>

\* lines 146-148: the with block ends, the connection is closed, return True
ProbeExit ==
    /\ probe.pc = "executed"
    /\ LET x == ProbeLeave(probe.conn, "none")
       IN  /\ idle' = x.idle
           /\ overflow' = x.overflow
           /\ probe' = ProbeDone([probe EXCEPT !.steps = IF x.error = "none" THEN 3 ELSE 2],
                                 x.error)
    /\ UNCHANGED <<importVars, units, sessions, committed, bg>>

\* the process is interrupted (Ctrl-C) while the call is inside its with block
ProbeInterrupt ==
    /\ probe.pc \in {"connected", "executed"}
    /\ LET x == ProbeLeave(probe.conn, "KeyboardInterrupt")
       IN  /\ idle' = x.idle
           /\ overflow' = x.overflow
           /\ probe' = ProbeDone(probe, x.error)
    /\ UNCHANGED <<importVars, units, sessions, committed, bg>>

(***************************************************************************)
(* The environment: the database server and the other units of work.       *)
(***************************************************************************)
\* the server closes one connection without the client noticing
ServerDrop ==
    /\ \/ \E i \in 1 .. Len(idle) :
             /\ idle[i] = "alive"
             /\ idle' = [idle EXCEPT ![i] = "dead"]
             /\ UNCHANGED <<sessions, probe>>
       \/ \E s \in InUse :
             /\ sessions[s].conn = "alive"
             /\ sessions' = [sessions EXCEPT ![s].conn = "dead"]
             /\ UNCHANGED <<idle, probe>>
       \/ /\ probe.conn = "alive"
          /\ probe' = [probe EXCEPT !.conn = "dead"]
          /\ UNCHANGED <<idle, sessions>>
    /\ UNCHANGED <<importVars, overflow, units, committed, bg>>

\* another unit of work checks a connection out
BgCheckout ==
    /\ bg < MaxBg
    /\ \E canConnect \in BOOLEAN :
        LET g == PoolGet(idle, overflow, canConnect)
        IN  /\ idle' = g.idle
            /\ overflow' = g.overflow
            /\ bg' = IF g.err = "none" THEN bg + 1 ELSE bg
    /\ idle' # idle \/ bg' # bg
    /\ UNCHANGED <<importVars, units, sessions, committed, probe>>

\* another unit of work ends and its session is closed: its connection
\* goes back to the pool, or, when the server had closed it, its record
\* goes back empty
BgReturn ==
    /\ bg > 0
    /\ \E rec \in {"alive", "empty"} :
        LET r == PoolReturn(idle, overflow, rec)
        IN  /\ idle' = r.idle
            /\ overflow' = r.overflow
    /\ bg' = bg - 1
    /\ UNCHANGED <<importVars, units, sessions, committed, probe>>

(***************************************************************************)
(* Specifications.                                                         *)
(***************************************************************************)
runVars == <<idle, overflow, units, sessions, committed, probe, bg>>

UnitIdle == [pc |-> "idle", sess |-> 0, thrown |-> "none", outcome |-> "none", closes |-> 0]

\* the pool, the sessions and the database before the first unit of work
RunInit ==
    /\ idle = <<>>
    /\ overflow = -pool_size
    /\ units = [u \in Units |-> UnitIdle]
    /\ sessions = [s \in SessionIds |-> NewSession]
    /\ committed = [r \in Rows |-> "no"]
    /\ probe = ProbeIdle
    /\ bg = 0

\* the module imported with a valid configuration
Imported ==
    [pc |-> "imported", DATABASE_URL |-> "postgresql://db/catalog", bound |-> ModuleNames,
     echo |-> FALSE, error |-> "none", statements |-> 0]

Init ==
    /\ env = [k \in EnvKeys |-> IF k = "DATABASE_URL" THEN "postgresql://db/catalog" ELSE NoVal]
    /\ dotenv = [k \in EnvKeys |-> NoVal]
    /\ mod = Imported
    /\ transcript = 0
    /\ RunInit

\* Session lifecycle: concurrent units of work on a server that drops
\* connections
Next ==
    \/ \E u \in Units : GetDbEnter(u)
    \/ \E u \in Units : SessionQuery(u)
    \/ \E u \in Units : SessionCommit(u)
    \/ \E u \in Units : SessionRollback(u)
    \/ \E u \in Units : UnitEnd(u)
    \/ \E u \in Units : GetDbResume(u)
    \/ ServerDrop

Spec == Init /\ [][Next]_vars

\* Transactions: concurrent units of work writing rows
NextTx ==
    \/ \E u \in Units : GetDbEnter(u)
    \/ \E u \in Units : SessionAdd(u)
    \/ \E u \in Units : SessionQuery(u)
    \/ \E u \in Units : SessionFlush(u)
    \/ \E u \in Units : SessionCommit(u)
    \/ \E u \in Units : SessionRollback(u)
    \/ \E u \in Units : UnitEnd(u)
    \/ \E u \in Units : GetDbResume(u)

SpecTx == Init /\ [][NextTx]_vars

\* Pressure: one unit of work among up to MaxBg other units of work, on a
\* server that drops connections
LoadUnits == {1}

NextPressure ==
    \/ \E u \in LoadUnits : GetDbEnter(u)
    \/ \E u \in LoadUnits : SessionQuery(u)
    \/ \E u \in LoadUnits : SessionCommit(u)
    \/ \E u \in LoadUnits : SessionRollback(u)
    \/ \E u \in LoadUnits : UnitEnd(u)
    \/ \E u \in LoadUnits : GetDbResume(u)
    \/ ServerDrop
    \/ BgCheckout
    \/ BgReturn

SpecPressure == Init /\ [][NextPressure]_vars

\* Probe: calls of the startup probe among up to MaxBg units of work, on a
\* server that drops connections
NextProbe ==
    \/ ProbeConnect
    \/ ProbeExecute
    \/ ProbeExit
    \/ ProbeInterrupt
    \/ ServerDrop
    \/ BgCheckout
    \/ BgReturn

SpecProbe == Init /\ [][NextProbe]_vars

\* Import: the module's top-level statements under every configuration, and
\* the first uses of what it binds
InitImport ==
    /\ env \in [EnvKeys -> UrlValues \cup EnvironmentValues]
    /\ env["DATABASE_URL"] \in UrlValues
    /\ env["ENVIRONMENT"] \in EnvironmentValues
    /\ dotenv \in [EnvKeys -> UrlValues \cup EnvironmentValues]
    /\ dotenv["DATABASE_URL"] \in UrlValues
    /\ dotenv["ENVIRONMENT"] \in EnvironmentValues
    /\ mod = ModuleStart
    /\ transcript = 0
    /\ RunInit

NextImport ==
    \/ ImportLoadDotenv /\ UNCHANGED runVars
    \/ ImportGetenv /\ UNCHANGED runVars
    \/ ImportCheck /\ UNCHANGED runVars
    \/ ImportCreateEngine /\ UNCHANGED runVars
    \/ ImportBind /\ UNCHANGED runVars
    \/ EngineExecute /\ UNCHANGED runVars
    \/ \E u \in Units : GetDbEnter(u)
    \/ ProbeConnect

SpecImport == InitImport /\ [][NextImport]_vars

(***************************************************************************)
(* Properties.                                                             *)
(***************************************************************************)
\* the units of work that have a session from get_db and have not had it closed
Running == {u \in Units : units[u].pc \in {"active", "ended"}}

\* connections open on the client side: idle in the pool or checked out
OpenConnections ==
    Cardinality({i \in 1 .. Len(idle) : idle[i] # "empty"})
    + Cardinality({s \in SessionIds : sessions[s].conn # "none"})
    + (IF probe.conn # "none" THEN 1 ELSE 0)
    + bg

\* C1: get_db closes the session of every unit of work exactly once when the
\* unit ends, normally or by raising, so the connections checked out of the
\* pool are exactly those of the units still running, and none once all
\* units have ended.
SessionClosedExactlyOnce ==
    /\ \A u \in Units : units[u].closes <= 1
    /\ \A u \in Units : units[u].pc = "done" => units[u].closes = 1
    /\ CheckedOut = Cardinality({u \in Running : sessions[units[u].sess].conn # "none"})
    /\ Running = {} => CheckedOut = 0

\* C1 witness: a unit that ended normally and a unit that ended by raising
\* have both been closed, each had a connection of its own, and both
\* connections are back in the pool.
ClosedAfterSuccessAndFailure ==
    \E u, v \in Units :
        /\ units[u].pc = "done" /\ units[u].outcome = "StopIteration"
        /\ units[v].pc = "done" /\ units[v].outcome = "AppError"
        /\ Len(idle) = 2
        /\ CheckedOut = 0

\* C6: no two units of work that are active at the same time hold the same
\* session.
SessionNeverShared ==
    \A u, v \in Running : u # v => units[u].sess # units[v].sess

\* C6 witness: two units of work are active at once, each on a connection.
TwoUnitsActive ==
    \E u, v \in Units :
        /\ u # v
        /\ units[u].pc = "active" /\ units[v].pc = "active"
        /\ sessions[units[u].sess].conn = "alive"
        /\ sessions[units[v].sess].conn = "alive"

\* C8: no session is handed a connection that the server had already closed
\* when it was checked out.
NeverHandedDead ==
    \A s \in SessionIds : sessions[s].got # "dead"

\* C8 witness: a session holds a connection that replaced a pooled one the
\* server had closed.
DeadConnectionReplaced ==
    \E u \in Running :
        /\ sessions[units[u].sess].got = "replaced"
        /\ sessions[units[u].sess].conn = "alive"


\* the rows a query through session s returns: the committed ones and those
\* of the session's own open transaction
Visible(s) == {r \in Rows : committed[r] # "no"} \cup sessions[s].tx

\* the rows session s has written and not committed
Uncommitted(s) == {r \in sessions[s].pending \cup sessions[s].tx : committed[r] # "commit"}

\* C5: a row written through a session is in the database only once that
\* session's unit of work has called commit: no query flushes pending rows, no
\* flush or close persists them, and no other session's query returns them.
WritesInvisibleUntilCommit ==
    /\ \A r \in Rows : committed[r] \in {"no", "commit"}
    /\ \A s \in SessionIds : sessions[s].autoflushed = {}
    /\ \A u, v \in Running :
          u # v => Uncommitted(units[u].sess) \cap Visible(units[v].sess) = {}

\* C5 witness: one unit of work has flushed a row it has not committed, and
\* another, holding a connection after a query of its own, still has its
\* added row pending.
UncommittedWriteHidden ==
    \E u, v \in Units :
        /\ u # v
        /\ units[u].pc = "active" /\ units[v].pc = "active"
        /\ sessions[units[u].sess].tx = {u}
        /\ sessions[units[v].sess].conn = "alive"
        /\ sessions[units[v].sess].pending = {v}
        /\ committed[u] = "no"

\* C7 as claimed: whatever a unit of work raises is what get_db's caller
\* gets, after the session has been closed.
ErrorPropagatedUnchanged ==
    \A u \in Units :
        (units[u].pc = "done" /\ units[u].thrown # "none") =>
            /\ units[u].closes = 1
            /\ units[u].outcome = units[u].thrown

\* C7 as amended: the error a unit of work raises reaches the caller after
\* the session has been closed, unchanged unless db.close() itself raises,
\* which it does only when the unit's own error was not a connection error;
\* the error is never swallowed.
ErrorPropagatedUnlessCloseRaises ==
    \A u \in Units :
        (units[u].pc = "done" /\ units[u].thrown # "none") =>
            /\ units[u].closes = 1
            /\ CheckedOut = bg + Cardinality({v \in Running :
                                                sessions[units[v].sess].conn # "none"})
            /\ units[u].outcome \in {units[u].thrown, "CloseFailed"}
            /\ units[u].thrown \in {"PoolTimeout", "ConnectFailed", "Disconnect"} =>
                  units[u].outcome = units[u].thrown

\* C7 witness: a unit of work that met an exhausted pool has ended, and its
\* caller got the pool's timeout error.
PoolTimeoutPropagated ==
    \E u \in Units :
        /\ units[u].pc = "done"
        /\ units[u].thrown = "PoolTimeout"
        /\ units[u].outcome = "PoolTimeout"
        /\ bg = pool_size + max_overflow

\* C2: the pool never has more than 15 connections open.
PoolNeverExceedsCap ==
    OpenConnections <= 15

\* C2 witness: 15 connections are checked out and a further request has been
\* refused.
RefusedAtCap ==
    /\ CheckedOut = 15
    /\ OpenConnections = 15
    /\ probe.pc = "done"
    /\ probe.error = "PoolTimeout"

\* C3 as claimed: the probe returns, true exactly when connect and execute
\* both succeeded.
ProbeTrueIffConnectAndExecute ==
    probe.pc = "done" =>
        /\ probe.result \in {"True", "False"}
        /\ probe.result = "True" <=> probe.steps >= 2

\* C3 as amended: the probe returns true exactly when connect, execute and
\* the release of the connection all succeeded, false whenever one of them
\* raised an Exception, and lets through only a KeyboardInterrupt.
ProbeTrueIffAllStepsSucceed ==
    probe.pc = "done" =>
        /\ probe.result = "True" <=> (probe.steps = 3 /\ probe.error = "none")
        /\ probe.error \in {"PoolTimeout", "ConnectFailed", "Disconnect", "QueryError",
                            "CloseFailed"} => probe.result = "False"
        /\ probe.result \notin {"True", "False"} =>
              (probe.result = "KeyboardInterrupt" /\ probe.error = "KeyboardInterrupt")

\* C3 witness: connect and execute succeeded, the release raised, and the
\* probe returned false.
ProbeFalseOnReleaseFailure ==
    /\ probe.pc = "done"
    /\ probe.steps = 2
    /\ probe.error = "CloseFailed"
    /\ probe.result = "False"

\* C10: the probe holds a connection only while it runs: the pool's count of
\* checked-out connections is that of the other units of work, plus the
\* probe's one while it is between connect and return.
ProbeLeavesPoolUnchanged ==
    /\ CheckedOut = bg + (IF probe.pc \in {"connected", "executed"} THEN 1 ELSE 0)
    /\ probe.pc \in {"idle", "done"} => probe.conn = "none"

\* C10 witness: the probe's query raised while other units of work held
\* connections, and the probe has returned.
ProbeReturnedAfterQueryError ==
    /\ probe.pc = "done"
    /\ probe.error = "QueryError"
    /\ probe.result = "False"
    /\ bg > 0
    /\ CheckedOut = bg

\* the configured values, whichever of the environment and the file they
\* come from
EffectiveUrl ==
    IF env["DATABASE_URL"] # NoVal THEN env["DATABASE_URL"] ELSE dotenv["DATABASE_URL"]
EffectiveEnvironment ==
    IF env["ENVIRONMENT"] # NoVal THEN env["ENVIRONMENT"] ELSE dotenv["ENVIRONMENT"]

\* C4: with DATABASE_URL missing or empty the import never gets past its
\* check: it binds nothing, it ends in the configuration error, and no
\* session or probe is ever started.
MissingUrlFailsAtImport ==
    EffectiveUrl \in {NoVal, ""} =>
        /\ mod.pc \in {"load_dotenv", "getenv", "check", "failed"}
        /\ mod.bound = {}
        /\ mod.pc = "failed" => mod.error = "ValueError"
        /\ \A u \in Units : units[u].pc = "idle"
        /\ probe.pc = "idle"

\* C4 witness: the import has failed with the configuration error on an
\* empty DATABASE_URL in the environment, although the file has a value.
FailedOnEmptyUrl ==
    /\ mod.pc = "failed"
    /\ mod.error = "ValueError"
    /\ env["DATABASE_URL"] = ""
    /\ dotenv["DATABASE_URL"] = "postgresql://db/catalog"

\* C9: the engine echoes statements exactly when ENVIRONMENT is the string
\* "development".
EchoIffDevelopment ==
    /\ "engine" \in mod.bound => (mod.echo <=> EffectiveEnvironment = "development")
    /\ EffectiveEnvironment # "development" => transcript = 0
    /\ ("engine" \in mod.bound /\ EffectiveEnvironment = "development") =>
          transcript = mod.statements

\* C9 witness: statements have run with ENVIRONMENT set to "Development",
\* and nothing was echoed.
SilentOnOtherCase ==
    /\ mod.statements > 0
    /\ transcript = 0
    /\ EffectiveEnvironment = "Development"


====
